---- MODULE Spec2Model ----
(***************************************************************************)
(* Model of the Infy CAN module simulator (src/src/app.py) and of the      *)
(* identifier codec of its command-line client (src/src/can_client.py).    *)
(*                                                                         *)
(* Numbers.  A Python float the simulator can hold is always the double    *)
(* nearest to k/2000 for a natural number k (a millivolt or milliamp       *)
(* count divided by 1000.0, possibly halved once; halving a double is      *)
(* exact).  Such a double is represented by k ("half-milli units"): the    *)
(* map k |-> fl(k/2000) is injective for k < 2^31, so equality of the      *)
(* representations is equality of the doubles.  The operators MulInt and   *)
(* PackF32 compute int(x * c) and struct.pack('>f', x) bit-exactly for     *)
(* IEEE-754 binary64 with round-to-nearest-even, in 32-bit arithmetic.     *)
(***************************************************************************)
EXTENDS Integers, Sequences, FiniteSets, TLC

VARIABLES
    module_id,   \* self.module_id
    group_id,    \* self.group_id
    dev,         \* Device State: is_power_on, voltage_out, current_out, set_voltage, set_current
    running,     \* self.running
    rx,          \* position of the _receive_loop thread
    msg,         \* the frame the receive loop took last (NoMsg: none yet)
    pre,         \* Device State when msg was taken
    dec,         \* the locals of _process_message for msg (NoDec: not called)
    outcome,     \* what the receive loop did with msg
    reply_data,  \* the local reply_data of _route_command for msg
    sent,        \* the frames the module transmitted while handling msg
    client_last, \* CANClient.responses: the entry _process_response stored last
    hb,          \* position of the _broadcast_heartbeat_loop thread
    hb_msg,      \* the heartbeat frame transmitted last (NoHeartbeat: none yet)
    sleep_time,  \* the local sleep_time of the heartbeat loop, in microseconds
    gui          \* the graphical client: the attributes of CANClientGUI and its timers

vars == <<module_id, group_id, dev, running, rx, msg, pre, dec, outcome, reply_data, sent,
          client_last, hb, hb_msg, sleep_time, gui>>

\* The variables of the heartbeat thread
hbvars == <<hb, hb_msg, sleep_time>>

----------------------------------------------------------------------------
(* Bit operations on Python ints (non-negative here).                      *)

Shl(x, n) == x * 2^n

Shr(x, n) == x \div 2^n

RECURSIVE BitOr(_, _)
BitOr(a, b) ==
    IF a = 0 THEN b
    ELSE IF b = 0 THEN a
    ELSE (IF a % 2 = 1 \/ b % 2 = 1 THEN 1 ELSE 0) + 2 * BitOr(a \div 2, b \div 2)

RECURSIVE BitAnd(_, _)
BitAnd(a, b) ==
    IF a = 0 \/ b = 0 THEN 0
    ELSE (IF a % 2 = 1 /\ b % 2 = 1 THEN 1 ELSE 0) + 2 * BitAnd(a \div 2, b \div 2)

----------------------------------------------------------------------------
(* Program constants.                                                      *)

BROADCAST == 63        \* 0x3F

DEVICE_SINGLE == 10    \* 0x0A

DEVICE_GROUP == 11     \* 0x0B

MONITOR_ADDR == 240    \* 0xF0, the client's source address

----------------------------------------------------------------------------
(* Identifier codec.                                                       *)

\* The 29-bit layout Error(3) | Device(4) | CMD(6) | Dest(8) | Src(8), packed
\* with shifts and bitwise or as the code's two encoders do.
PackId(err, device, cmd, dest, src) ==
    BitOr(BitOr(BitOr(BitOr(Shl(err, 26), Shl(device, 22)), Shl(cmd, 16)), Shl(dest, 8)), src)

\* Faulty variant of ResponseId: destination and source exchanged
ResponseIdSwapped(cmd, target_addr, my_id) == PackId(0, DEVICE_SINGLE, cmd, my_id, target_addr)

\* Faulty variant of ResponseId: the reply is addressed to everybody
ResponseIdBroadcast(cmd, target_addr, my_id) == PackId(0, DEVICE_SINGLE, cmd, BROADCAST, my_id)

\* _send_response: resp_id
ResponseId(cmd, target_addr, my_id) == PackId(0, DEVICE_SINGLE, cmd, target_addr, my_id)

\* CANClient.send_command: can_id
ClientCanId(cmd, target_addr) == PackId(0, DEVICE_SINGLE, cmd, target_addr, MONITOR_ADDR)

\* _process_message: the five field extractions
err_code(can_id) == BitAnd(Shr(can_id, 26), 7)

device_no(can_id) == BitAnd(Shr(can_id, 22), 15)

\* Faulty variant of cmd_no: a 7-bit mask
cmd_noWide(can_id) == BitAnd(Shr(can_id, 16), 127)

cmd_no(can_id) == BitAnd(Shr(can_id, 16), 63)

dest_addr(can_id) == BitAnd(Shr(can_id, 8), 255)

src_addr(can_id) == BitAnd(can_id, 255)

\* CANClient._process_response: the two field extractions
client_cmd_no(can_id) == BitAnd(Shr(can_id, 16), 63)

client_src_addr(can_id) == BitAnd(can_id, 255)

Decode(can_id) ==
    [err_code |-> err_code(can_id), device_no |-> device_no(can_id),
     cmd_no |-> cmd_no(can_id), dest_addr |-> dest_addr(can_id),
     src_addr |-> src_addr(can_id)]

----------------------------------------------------------------------------
(* Payload codecs (struct, big-endian).                                    *)

\* struct.pack('>I', n) for 0 <= n < 2^31
PackU32(n) == <<(n \div 16777216) % 256, (n \div 65536) % 256, (n \div 256) % 256, n % 256>>

\* struct.unpack('>I', b)[0] for a 4-byte b
UnpackU32(b) == ((b[1] * 256 + b[2]) * 256 + b[3]) * 256 + b[4]

\* struct.pack('>H', n) for 0 <= n <= 65535 (struct.error above that)
PackU16(n) == <<(n \div 256) % 256, n % 256>>

\* struct.pack('>II', v, c), as the clients' _make_output_data builds payloads
PackII(v, c) == PackU32(v) \o PackU32(c)

----------------------------------------------------------------------------
(* Doubles in half-milli units: k stands for fl(k/2000).                   *)

\* v_val / 1000.0 for an integer v_val
FromMilli(v) == 2 * v

\* x / 2 for x = FromMilli(c): fl(c/1000)/2 = fl(c/2000)
Half(x) == x \div 2

\* floor(log2(n/d)) for n, d > 0
RECURSIVE Log2Up(_, _)
Log2Up(q, e) == IF 2^(e + 1) <= q THEN Log2Up(q, e + 1) ELSE e

RECURSIVE Log2Down(_, _, _)
Log2Down(n, d, t) == IF n * 2^t >= d THEN 0 - t ELSE Log2Down(n, d, t + 1)

FloorLog2(n, d) == IF n >= d THEN Log2Up(n \div d, 0) ELSE Log2Down(n, d, 1)

IsPow2(j) == j = 2^Log2Up(j, 0)

\* 2^f mod m
RECURSIVE PowMod2(_, _)
PowMod2(f, m) == IF f = 0 THEN 1 % m ELSE (2 * PowMod2(f - 1, m)) % m

\* The signed rounding error of q = fl(k/2000), in units of 1/(2000 * 2^F)
\* with F = 52 - floor(log2(k/2000)): q = k/2000 + RoundErr(k)/(2000 * 2^F).
RoundErr(k) ==
    LET F   == 52 - FloorLog2(k, 2000)
        rho == ((k % 2000) * PowMod2(F, 2000)) % 2000
    IN  IF rho < 1000 THEN 0 - rho ELSE 2000 - rho

\* int(x * c) for the double x = fl(k/2000) and c in {10, 1000}: the product
\* is rounded to a double, then truncated.  With g = 2000/c, the exact product
\* is k/g + RoundErr/(g * 2^F); it truncates to k \div g unless k/g is an
\* integer j and the rounded product falls below j.
MulInt(k, c) ==
    LET g == 2000 \div c
        j == k \div g
    IN  IF k % g # 0 \/ k = 0 THEN j
        ELSE LET e == RoundErr(k)
                 D == FloorLog2(j, 1) - FloorLog2(k, 2000)
                 m == IF IsPow2(j) THEN 4 ELSE 2
             IN  IF e < 0 /\ (0 - e) * m > g * 2^D THEN j - 1 ELSE j

\* struct.pack('>f', x) for the double x = fl(k/2000), k < 2^30: x rounded to
\* binary32 (rounding the double or the exact quotient gives the same bits)
PackF32(k) ==
    IF k = 0 THEN <<0, 0, 0, 0>>
    ELSE LET E  == FloorLog2(k, 2000)
             n  == k * 2^(19 - E)            \* k * 2^(23-E) / 2000 = n / 125
             M0 == n \div 125
             M1 == IF 2 * (n % 125) > 125 THEN M0 + 1 ELSE M0
             E2 == IF M1 = 16777216 THEN E + 1 ELSE E
             M2 == IF M1 = 16777216 THEN 8388608 ELSE M1
         IN  PackU32((E2 + 127) * 8388608 + (M2 - 8388608))

----------------------------------------------------------------------------
(* Device State and the command handlers.                                  *)

\* __init__: the electrical defaults (0.0, 0.0, 500.0, 10.0, off)
DevInit ==
    [is_power_on |-> FALSE, voltage_out |-> 0, current_out |-> 0,
     set_voltage |-> FromMilli(500000), set_current |-> FromMilli(10000)]

\* __init__: the capability constants 25.6, 750.0, 100.0, 15000.0
max_current == 51200

cap_voltage_max == 1500000

cap_voltage_min == 200000

cap_power_rated == 30000000

Max0(n) == IF n > 0 THEN n ELSE 0

\* A reply payload: None, or bytes
None == [is_none |-> TRUE, bytes |-> <<>>]

Bytes(b) == [is_none |-> FALSE, bytes |-> b]

\* Python's truth value of reply_data: None and b'' are false
TruthyAlways(r) == TRUE

Truthy(r) == ~r.is_none /\ Len(r.bytes) > 0

\* _handle_power_control raises IndexError on data[0] of an empty payload
power_control_raises(data) == Len(data) = 0

\* Faulty variant of _handle_power_control: power-off leaves current_out
power_controlKeepCurrent(d, data) ==
    IF data[1] = 0
    THEN [d EXCEPT !.is_power_on = TRUE, !.voltage_out = d.set_voltage,
                   !.current_out = Half(d.set_current)]
    ELSE [d EXCEPT !.is_power_on = FALSE, !.voltage_out = 0]

\* Faulty variant of _handle_power_control: power-on takes the full setpoint current
power_controlFullLoad(d, data) ==
    IF data[1] = 0
    THEN [d EXCEPT !.is_power_on = TRUE, !.voltage_out = d.set_voltage,
                   !.current_out = d.set_current]
    ELSE [d EXCEPT !.is_power_on = FALSE, !.voltage_out = 0, !.current_out = 0]

\* _handle_power_control (data not empty)
_handle_power_control(d, data) ==
    IF data[1] = 0
    THEN [d EXCEPT !.is_power_on = TRUE, !.voltage_out = d.set_voltage,
                   !.current_out = Half(d.set_current)]
    ELSE [d EXCEPT !.is_power_on = FALSE, !.voltage_out = 0, !.current_out = 0]

_handle_read_power_state(d) ==
    Bytes(<<IF d.is_power_on THEN 0 ELSE 1, 0, 0, 0, 0, 0, 0, 0>>)

\* _handle_set_output: struct.unpack('>I', ...) raises struct.error unless
\* data[0:4] and data[4:8] both hold 4 bytes; nothing is assigned before that
set_output_raises(data) == Len(data) < 8

\* Faulty variant of _handle_set_output: voltage_out follows also when off
set_outputAlwaysTracks(d, data) ==
    LET v_val == UnpackU32(SubSeq(data, 1, 4))
        c_val == UnpackU32(SubSeq(data, 5, 8))
    IN  [d EXCEPT !.set_voltage = FromMilli(v_val), !.set_current = FromMilli(c_val),
                  !.voltage_out = FromMilli(v_val)]

\* Faulty variant of _handle_set_output: only the setpoint is stored
set_outputNeverTracks(d, data) ==
    LET v_val == UnpackU32(SubSeq(data, 1, 4))
        c_val == UnpackU32(SubSeq(data, 5, 8))
    IN  [d EXCEPT !.set_voltage = FromMilli(v_val), !.set_current = FromMilli(c_val)]

\* _handle_set_output (data of 8 bytes)
_handle_set_output(d, data) ==
    LET v_val == UnpackU32(SubSeq(data, 1, 4))
        c_val == UnpackU32(SubSeq(data, 5, 8))
        d1    == [d EXCEPT !.set_voltage = FromMilli(v_val), !.set_current = FromMilli(c_val)]
    IN  IF d1.is_power_on THEN [d1 EXCEPT !.voltage_out = d1.set_voltage] ELSE d1

_handle_set_output_fixed(d, data) == _handle_set_output(d, data)

_handle_read_output_setting(d) ==
    Bytes(PackII(MulInt(d.set_voltage, 1000), MulInt(d.set_current, 1000)))

_handle_read_module_float(d) == Bytes(PackF32(d.voltage_out) \o PackF32(d.current_out))

read_system_floatOfSetpoint(d) == Bytes(PackF32(d.set_voltage) \o PackF32(d.current_out))

_handle_read_system_float(d) == _handle_read_module_float(d)

read_statusFiveBytes(d) == Bytes(<<0, 0, 0, 0, 25>>)

_handle_read_status(d) == Bytes(<<0, 0, 0, 0, 25, 0, 0, 0>>)

_handle_read_system_fixed(d) ==
    Bytes(PackII(Max0(MulInt(d.voltage_out, 1000)), Max0(MulInt(d.current_out, 1000))))

_handle_read_module_fixed(d) == _handle_read_system_fixed(d)

_handle_read_module_info(d) ==
    Bytes(PackU16(MulInt(cap_voltage_max, 10)) \o PackU16(MulInt(cap_voltage_min, 10))
          \o PackU16(MulInt(max_current, 10)) \o PackU16(cap_power_rated \div 20000))

\* _handle_read_module_external: struct.pack('>HHHH', ...) raises struct.error
\* when ext_v does not fit 16 bits
ext_v(d) == Max0(MulInt(d.voltage_out, 10))

read_module_external_raises(d) == ext_v(d) > 65535

_handle_read_module_external(d) ==
    Bytes(PackU16(ext_v(d)) \o PackU16(IF d.is_power_on THEN MulInt(max_current, 10) ELSE 0)
          \o <<0, 0, 0, 0>>)

----------------------------------------------------------------------------
(* Command router.                                                         *)

\* Whether _route_command(cmd, data, ...) ends in an unhandled exception
route_raises(cmd, data, d) ==
    \/ cmd = 26 /\ power_control_raises(data)
    \/ cmd \in {27, 28} /\ set_output_raises(data)
    \/ cmd = 12 /\ read_module_external_raises(d)

\* The commands the if/elif chain of _route_command has a branch for
KnownCommands == {1, 3, 4, 8, 9, 10, 12, 26, 27, 28}

route_devUnknownSwitchesOff(cmd, data, d) ==
    IF cmd = 26 THEN _handle_power_control(d, data)
    ELSE IF cmd = 27 THEN _handle_set_output(d, data)
    ELSE IF cmd = 28 THEN _handle_set_output_fixed(d, data)
    ELSE IF cmd \in KnownCommands THEN d
    ELSE [d EXCEPT !.is_power_on = FALSE, !.voltage_out = 0, !.current_out = 0]

\* Device State after _route_command (no exception)
route_dev(cmd, data, d) ==
    IF cmd = 26 THEN _handle_power_control(d, data)
    ELSE IF cmd = 27 THEN _handle_set_output(d, data)
    ELSE IF cmd = 28 THEN _handle_set_output_fixed(d, data)
    ELSE d

\* The conditions under which 0x1A and 0x1C produce a reply
PowerReply(device_mode, dest) == device_mode = DEVICE_SINGLE /\ dest # BROADCAST

FixedReply(dest) == dest # BROADCAST

\* reply_data at the end of the if/elif chain, d1 being the state the
\* handler of the command left
route_reply(cmd, device_mode, dest, d1) ==
    IF cmd = 1 THEN _handle_read_system_float(d1)
    ELSE IF cmd = 3 THEN _handle_read_module_float(d1)
    ELSE IF cmd = 4 THEN _handle_read_status(d1)
    ELSE IF cmd = 8 THEN _handle_read_system_fixed(d1)
    ELSE IF cmd = 9 THEN _handle_read_module_fixed(d1)
    ELSE IF cmd = 10 THEN _handle_read_module_info(d1)
    ELSE IF cmd = 12 THEN _handle_read_module_external(d1)
    ELSE IF cmd = 26 THEN (IF PowerReply(device_mode, dest)
                           THEN _handle_read_power_state(d1) ELSE None)
    ELSE IF cmd = 27 THEN _handle_read_output_setting(d1)
    ELSE IF cmd = 28 THEN (IF FixedReply(dest)
                           THEN _handle_read_output_setting(d1) ELSE None)
    ELSE None

\* _send_response: the frame put on the bus
_send_response(cmd, data, target_addr, my_id) ==
    [arbitration_id |-> ResponseId(cmd, target_addr, my_id), data |-> data]

\* Faulty variant of IsForMe: no broadcast rule
IsForMeNoBroadcast(device, dest, my_id, my_group) ==
    \/ device = DEVICE_SINGLE /\ dest = my_id
    \/ device = DEVICE_GROUP /\ dest = my_group

\* _process_message: the addressing filter
IsForMeAnyScope(device, dest, my_id, my_group) ==
    dest = BROADCAST \/ dest = my_id \/ dest = my_group

IsForMe(device, dest, my_id, my_group) ==
    \/ dest = BROADCAST
    \/ device = DEVICE_SINGLE /\ dest = my_id
    \/ device = DEVICE_GROUP /\ dest = my_group

\* Faulty variant of IsOwnEcho: no filter
IsOwnEchoNever(can_id, my_id) == FALSE

LoopBreakNever(r) == FALSE

\* "if not self.running: break" at the head of each receive-loop iteration
LoopBreak(r) == ~r

HeartbeatContinueAlways(r) == TRUE

\* "while self.running" of the heartbeat loop
HeartbeatContinue(r) == r


\* _receive_loop: the own-echo filter
IsOwnEcho(can_id, my_id) == BitAnd(can_id, 255) = my_id

----------------------------------------------------------------------------
(* The frames the bus can deliver.                                         *)

\* A frame as the receive loop sees it: identifier, payload, error flag.
\* fields records what the sender packed into the identifier.
Frame(err, device, cmd, dest, src, data) ==
    [arbitration_id |-> PackId(err, device, cmd, dest, src), data |-> data,
     is_error_frame |-> FALSE, by_client |-> FALSE,
     fields |-> [err_code |-> err, device_no |-> device, cmd_no |-> cmd,
                 dest_addr |-> dest, src_addr |-> src]]

\* A frame built by CANClient.send_command(cmd, data, target_addr)
ClientFrame(cmd, data, target_addr) ==
    [arbitration_id |-> ClientCanId(cmd, target_addr), data |-> data,
     is_error_frame |-> FALSE, by_client |-> TRUE,
     fields |-> [err_code |-> 0, device_no |-> DEVICE_SINGLE, cmd_no |-> cmd,
                 dest_addr |-> target_addr, src_addr |-> MONITOR_ADDR]]

ErrorFrame(f) == [f EXCEPT !.is_error_frame = TRUE]

\* No heartbeat transmitted yet
NoHeartbeat == [arbitration_id |-> 0 - 1, data |-> <<>>]

NoMsg ==
    [arbitration_id |-> 0 - 1, data |-> <<>>, is_error_frame |-> FALSE, by_client |-> FALSE,
     fields |-> [err_code |-> 0 - 1, device_no |-> 0 - 1, cmd_no |-> 0 - 1,
                 dest_addr |-> 0 - 1, src_addr |-> 0 - 1]]

NoResp == [cmd_no |-> 0 - 1, src |-> 0 - 1, data |-> <<>>]

NoDec ==
    [err_code |-> 0 - 1, device_no |-> 0 - 1, cmd_no |-> 0 - 1,
     dest_addr |-> 0 - 1, src_addr |-> 0 - 1]

\* (module id, group id) pairs a simulator is constructed with
Identities == {<<0, 0>>, <<1, 2>>}

\* Setpoints sent in 0x1B/0x1C payloads: millivolts and milliamps
MilliVolts == {1001, 500000, 16777216}

MilliAmps == {3, 10000}

SetPayloads == {PackII(v, c) : v \in MilliVolts, c \in MilliAmps}

ZeroPayload == <<0, 0, 0, 0, 0, 0, 0, 0>>

ShortPayloads == {<<>>, <<0>>, <<1>>, <<255, 0>>, <<0, 7, 161, 32>>, <<0, 7, 161, 32, 0, 0, 39>>}

Payloads == SetPayloads \cup ShortPayloads \cup {ZeroPayload}

Commands == {1, 3, 4, 8, 9, 10, 12, 26, 27, 28, 23, 0}

Scopes == {DEVICE_SINGLE, DEVICE_GROUP, 13}

Dests == {0, 1, 2, BROADCAST, 248}

Sources == {MONITOR_ADDR, 0, 1}

\* Every command with every payload as a group-scope request
CommandFrames ==
    {Frame(0, DEVICE_GROUP, c, d, MONITOR_ADDR, p) :
        c \in Commands, d \in Dests \ {248}, p \in Payloads}

\* Every scope, destination and source, with and without an error code
AddressFrames ==
    {Frame(e, s, c, d, a, p) : e \in {0, 7}, s \in Scopes, c \in {4, 26, 28},
                               d \in Dests, a \in Sources, p \in {<<1>>, PackII(1001, 3)}}

\* What the command-line client sends
ClientFrames ==
    {ClientFrame(c, p, t) : c \in Commands, p \in Payloads, t \in Dests \ {248}}

\* Every 6-bit command the router has no branch for, addressed to the module
UnknownFrames ==
    {Frame(0, DEVICE_SINGLE, c, d, MONITOR_ADDR, p) :
        c \in (0 .. 63) \ KnownCommands, d \in {1, BROADCAST},
        p \in {<<>>, ZeroPayload, PackII(500000, 10000)}}

DataFrames == CommandFrames \cup AddressFrames \cup ClientFrames \cup UnknownFrames

ErrorFrames == {ErrorFrame(Frame(0, DEVICE_SINGLE, 26, d, MONITOR_ADDR, <<0>>)) : d \in Dests}

Frames == DataFrames \cup ErrorFrames

----------------------------------------------------------------------------
(* The graphical client (src/src/can_client_gui.py).  Times are in units   *)
(* of 10 ms.  A time stamp is kept as its age, the time passed since it    *)
(* was taken; ages stop counting at AgeCap.                                *)

\* self.ui_poll_ms = 50
ui_poll_ms == 5

\* self.window.after(1000, self.check_heartbeat_timeout)
TIMEOUT_AFTER == 100

\* time_since_last > 1000
TIMEOUT_LIMIT == 100

AgeCap == 102

\* Frames other than heartbeats the receive thread may have queued
MaxQueue == 1

\* The client after __init__ with the bus opened by setup_can.  Besides the
\* attributes: thread is the position of receive_loop, timers the pending
\* check_heartbeat_timeout calls, ui_poll the time to the next
\* process_ui_queue; next_heartbeat is the time to the next heartbeat frame on
\* the bus (-1: none will come), recv_age the age of the last heartbeat
\* receive_loop took (-1: none), regular whether the client has stayed
\* connected with all heartbeats 390..410 ms apart.
GuiInit ==
    [running |-> TRUE, thread |-> "waiting", ui_queue |-> <<>>, ui_poll |-> ui_poll_ms,
     timers |-> <<>>, timeout_check_id |-> 0, heartbeat_status |-> "none",
     last_heartbeat_time |-> 0 - 1,
     next_heartbeat |-> 1, recv_age |-> 0 - 1, regular |-> TRUE]

----------------------------------------------------------------------------
(* The state machine.                                                      *)

\* After __init__: nothing runs yet
Init ==
    /\ \E id \in Identities : module_id = id[1] /\ group_id = id[2]
    /\ dev = DevInit
    /\ running = FALSE
    /\ rx = "not_started"
    /\ msg = NoMsg
    /\ pre = DevInit
    /\ dec = NoDec
    /\ outcome = "none"
    /\ reply_data = None
    /\ sent = <<>>
    /\ client_last = NoResp
    /\ hb = "not_started"
    /\ hb_msg = NoHeartbeat
    /\ sleep_time = 0
    /\ gui = GuiInit

\* start(): running := True, the receive thread and the heartbeat thread are
\* started
Start ==
    /\ rx = "not_started"
    /\ running' = TRUE
    /\ rx' = "waiting"
    /\ hb' = "loop"
    /\ UNCHANGED <<gui, module_id, group_id, dev, msg, pre, dec, outcome, reply_data, sent, client_last,
                   hb_msg, sleep_time>>

\* One iteration of _receive_loop on frame m, with everything it calls:
\* _process_message, _route_command, the handler, _send_response.
Receive(m) ==
    /\ rx = "waiting"
    /\ msg' = m
    /\ pre' = dev
    /\ UNCHANGED <<gui, module_id, group_id, running, client_last, hb, hb_msg, sleep_time>>
    /\ IF LoopBreak(running)
       THEN /\ rx' = "exited" /\ outcome' = "break"
            /\ dec' = NoDec /\ reply_data' = None /\ sent' = <<>> /\ dev' = dev
       ELSE IF m.is_error_frame
       THEN /\ rx' = "handled" /\ outcome' = "error_frame"
            /\ dec' = NoDec /\ reply_data' = None /\ sent' = <<>> /\ dev' = dev
       ELSE IF IsOwnEcho(m.arbitration_id, module_id)
       THEN /\ rx' = "handled" /\ outcome' = "own_echo"
            /\ dec' = NoDec /\ reply_data' = None /\ sent' = <<>> /\ dev' = dev
       ELSE LET f == Decode(m.arbitration_id) IN
            /\ dec' = f
            /\ IF ~IsForMe(f.device_no, f.dest_addr, module_id, group_id)
               THEN /\ rx' = "handled" /\ outcome' = "not_for_me"
                    /\ reply_data' = None /\ sent' = <<>> /\ dev' = dev
               ELSE IF route_raises(f.cmd_no, m.data, dev)
               THEN \* the exception leaves _receive_loop: the thread ends
                    /\ rx' = "dead" /\ outcome' = "raised"
                    /\ reply_data' = None /\ sent' = <<>> /\ dev' = dev
               ELSE LET d1 == route_dev(f.cmd_no, m.data, dev)
                        r  == route_reply(f.cmd_no, f.device_no, f.dest_addr, d1)
                    IN  /\ rx' = "handled" /\ outcome' = "routed"
                        /\ dev' = d1
                        /\ reply_data' = r
                        /\ sent' = IF Truthy(r)
                                   THEN <<_send_response(f.cmd_no, r.bytes, f.src_addr, module_id)>>
                                   ELSE <<>>

\* The for loop of _receive_loop goes on to wait for the next frame; the
\* locals of the finished iteration are gone
NextFrame ==
    /\ rx = "handled"
    /\ rx' = "waiting"
    /\ msg' = NoMsg
    /\ pre' = dev
    /\ dec' = NoDec
    /\ outcome' = "none"
    /\ reply_data' = None
    /\ sent' = <<>>
    /\ UNCHANGED <<gui, module_id, group_id, dev, running, client_last, hb, hb_msg, sleep_time>>

Next ==
    \/ Start
    \/ \E m \in Frames : Receive(m)
    \/ NextFrame

Spec == Init /\ [][Next]_vars

----------------------------------------------------------------------------
(* The heartbeat thread next to the receive thread.  Times are in          *)
(* microseconds.                                                           *)

\* 0x0757F800
HEARTBEAT_BASE == 123205632

HeartbeatIdShifted(my_id) == BitOr(HEARTBEAT_BASE, Shl(my_id, 8))

\* arb_id of the heartbeat
HeartbeatId(my_id) == BitOr(HEARTBEAT_BASE, my_id)

HeartbeatFrame(my_id) == [arbitration_id |-> HeartbeatId(my_id), data |-> ZeroPayload]

SLEEP_MIN == 390000

SLEEP_MAX == 410000

\* random() is drawn from the fractions n/RandSteps
RandSteps == 4

RandomUniformFromZero(a, b, n) == (b * n) \div RandSteps

\* random.uniform(a, b) = a + (b - a) * random(); n = RandSteps is the end
\* point b, which rounding can produce
RandomUniform(a, b, n) == a + ((b - a) * n) \div RandSteps

HeartbeatStepBlocked ==
    /\ hb = "loop" /\ rx = "handled"
    /\ hb' = "sleeping"
    /\ hb_msg' = HeartbeatFrame(module_id)
    /\ \E n \in 0 .. RandSteps : sleep_time' = RandomUniform(SLEEP_MIN, SLEEP_MAX, n)
    /\ UNCHANGED <<gui, module_id, group_id, dev, running, rx, msg, pre, dec, outcome, reply_data,
                   sent, client_last>>

\* One pass of the while loop of _broadcast_heartbeat_loop up to the call of
\* time.sleep: the test of self.running, the send, the choice of sleep_time
HeartbeatStep ==
    /\ hb = "loop"
    /\ IF HeartbeatContinue(running)
       THEN /\ hb' = "sleeping"
            /\ hb_msg' = HeartbeatFrame(module_id)
            /\ \E n \in 0 .. RandSteps : sleep_time' = RandomUniform(SLEEP_MIN, SLEEP_MAX, n)
       ELSE /\ hb' = "exited"
            /\ UNCHANGED <<hb_msg, sleep_time>>
    /\ UNCHANGED <<gui, module_id, group_id, dev, running, rx, msg, pre, dec, outcome, reply_data,
                   sent, client_last>>

\* time.sleep(sleep_time) returns
HeartbeatWake ==
    /\ hb = "sleeping"
    /\ hb' = "loop"
    /\ UNCHANGED <<gui, module_id, group_id, dev, running, rx, msg, pre, dec, outcome, reply_data,
                   sent, client_last, hb_msg, sleep_time>>

\* The frames delivered while both threads run
LoopFrames ==
    {Frame(0, DEVICE_SINGLE, c, d, MONITOR_ADDR, p) :
        c \in {4, 12, 26, 27, 29}, d \in {0, BROADCAST},
        p \in {<<>>, <<0>>, PackII(500000, 10000)}}
    \cup {ErrorFrame(Frame(0, DEVICE_SINGLE, 26, BROADCAST, MONITOR_ADDR, <<0>>))}
    \cup {Frame(1, 13, 23, 248, a, ZeroPayload) : a \in {0, 1}}

NextLoops ==
    \/ Start
    \/ \E m \in LoopFrames : Receive(m)
    \/ NextFrame
    \/ HeartbeatStep
    \/ HeartbeatWake

SpecLoops == Init /\ [][NextLoops]_vars

\* The same under fair scheduling: a thread that can take a step is
\* eventually scheduled and a sleep eventually ends; when the next frame
\* arrives is up to the bus
SpecLive ==
    /\ Init /\ [][NextLoops]_vars
    /\ WF_vars(Start)
    /\ WF_vars(HeartbeatStep)
    /\ WF_vars(HeartbeatWake)
    /\ WF_vars(NextFrame)

\* The same with a shutdown request.

\* The run flag goes to stopped.  No statement of app.py assigns
\* self.running after start(); the transition is the one the specification
\* describes, made from outside the two loops
Stop ==
    /\ running
    /\ running' = FALSE
    /\ UNCHANGED <<gui, module_id, group_id, dev, rx, msg, pre, dec, outcome, reply_data, sent,
                   client_last, hb, hb_msg, sleep_time>>

NextStop ==
    \/ NextLoops
    \/ Stop

SpecStop == Init /\ [][NextStop]_vars

\* The same, on a transport whose send can fail.

\* One iteration of _receive_loop on frame m in which self.bus.send raises in
\* _send_response: the handler has run, nothing is transmitted, and the
\* exception leaves _send_response, _route_command, _process_message and
\* _receive_loop, none of which catches it
ReceiveSendFails(m) ==
    /\ rx = "waiting"
    /\ ~LoopBreak(running) /\ ~m.is_error_frame /\ ~IsOwnEcho(m.arbitration_id, module_id)
    /\ LET f == Decode(m.arbitration_id) IN
        /\ IsForMe(f.device_no, f.dest_addr, module_id, group_id)
        /\ ~route_raises(f.cmd_no, m.data, dev)
        /\ LET d1 == route_dev(f.cmd_no, m.data, dev)
               r  == route_reply(f.cmd_no, f.device_no, f.dest_addr, d1)
           IN  /\ Truthy(r)
               /\ dec' = f
               /\ dev' = d1
               /\ reply_data' = r
    /\ msg' = m
    /\ pre' = dev
    /\ sent' = <<>>
    /\ rx' = "dead"
    /\ outcome' = "send_failed"
    /\ UNCHANGED <<gui, module_id, group_id, running, client_last, hb, hb_msg, sleep_time>>

\* One pass of the heartbeat loop in which self.bus.send raises: nothing is
\* transmitted and the exception leaves _broadcast_heartbeat_loop
HeartbeatSendFails ==
    /\ hb = "loop"
    /\ HeartbeatContinue(running)
    /\ hb' = "dead"
    /\ UNCHANGED <<gui, module_id, group_id, dev, running, rx, msg, pre, dec, outcome, reply_data,
                   sent, client_last, hb_msg, sleep_time>>

NextFaulty ==
    \/ NextLoops
    \/ \E m \in LoopFrames : ReceiveSendFails(m)
    \/ HeartbeatSendFails

SpecFaulty == Init /\ [][NextFaulty]_vars

----------------------------------------------------------------------------
(* The identifier codec on its own: an identifier is packed, the module    *)
(* decodes it and builds the reply identifier, the client decodes that.    *)

CodecErrs == {0, 1, 4, 7}

CodecScopes == {0, 5, DEVICE_SINGLE, DEVICE_GROUP, 15}

CodecCmds == {0, 1, 26, 31, 32, 63}

CodecAddrs == {0, 59, BROADCAST, 128, MONITOR_ADDR, 255}

CodecFrames ==
    {Frame(e, s, c, d, a, ZeroPayload) : e \in CodecErrs, s \in CodecScopes, c \in CodecCmds,
                                         d \in CodecAddrs, a \in {0, 128, MONITOR_ADDR, 255}}
    \cup {ClientFrame(c, ZeroPayload, t) : c \in 0 .. 63, t \in CodecAddrs}

InitCodec ==
    /\ \E id \in Identities : module_id = id[1] /\ group_id = id[2]
    /\ dev = DevInit
    /\ running = FALSE
    /\ rx = "codec"
    /\ msg \in CodecFrames
    /\ pre = DevInit
    /\ dec = NoDec
    /\ outcome = "none"
    /\ reply_data = None
    /\ sent = <<>>
    /\ client_last = NoResp
    /\ hb = "not_started"
    /\ hb_msg = NoHeartbeat
    /\ sleep_time = 0
    /\ gui = GuiInit

\* _process_message: the field extraction
ModuleDecode ==
    /\ rx = "codec" /\ msg # NoMsg /\ dec = NoDec
    /\ dec' = Decode(msg.arbitration_id)
    /\ UNCHANGED <<gui, module_id, group_id, dev, running, rx, msg, pre, outcome, reply_data, sent,
                   client_last, hb, hb_msg, sleep_time>>

\* _send_response for the decoded request
ModuleReply ==
    /\ rx = "codec" /\ dec # NoDec /\ sent = <<>>
    /\ sent' = <<_send_response(dec.cmd_no, ZeroPayload, dec.src_addr, module_id)>>
    /\ UNCHANGED <<gui, module_id, group_id, dev, running, rx, msg, pre, dec, outcome, reply_data,
                   client_last, hb, hb_msg, sleep_time>>

\* CANClient._process_response on the reply
ClientDecode ==
    /\ rx = "codec" /\ sent # <<>> /\ client_last = NoResp
    /\ client_last' = [cmd_no |-> client_cmd_no(sent[1].arbitration_id),
                       src |-> client_src_addr(sent[1].arbitration_id),
                       data |-> sent[1].data]
    /\ UNCHANGED <<gui, module_id, group_id, dev, running, rx, msg, pre, dec, outcome, reply_data,
                   sent, hb, hb_msg, sleep_time>>

NextCodec == ModuleDecode \/ ModuleReply \/ ClientDecode

SpecCodec == InitCodec /\ [][NextCodec]_vars

----------------------------------------------------------------------------
(* Heartbeats of every sender arriving at the receive loop of modules of   *)
(* several identities.                                                     *)

RxModuleIds == {0, 1, 13, 59, 63, 248, 255}

RxGroupIds == {0, 2, 13, 63, 248}

SenderIds == 0 .. 255

\* The heartbeat of module sender as another module receives it
HeartbeatRxFrame(sender) ==
    [arbitration_id |-> HeartbeatId(sender), data |-> ZeroPayload,
     is_error_frame |-> FALSE, by_client |-> FALSE,
     fields |-> [err_code |-> 1, device_no |-> 13, cmd_no |-> 23,
                 dest_addr |-> 248, src_addr |-> sender]]

\* Commands that switch the receiver on and off in between
RxCommandFrames ==
    {Frame(0, DEVICE_SINGLE, 26, BROADCAST, MONITOR_ADDR, p) : p \in {<<0>>, <<1>>}}

InitHeartbeatRx ==
    /\ module_id \in RxModuleIds
    /\ group_id \in RxGroupIds
    /\ dev = DevInit
    /\ running = FALSE
    /\ rx = "not_started"
    /\ msg = NoMsg
    /\ pre = DevInit
    /\ dec = NoDec
    /\ outcome = "none"
    /\ reply_data = None
    /\ sent = <<>>
    /\ client_last = NoResp
    /\ hb = "not_started"
    /\ hb_msg = NoHeartbeat
    /\ sleep_time = 0
    /\ gui = GuiInit

NextHeartbeatRx ==
    \/ Start
    \/ \E s \in SenderIds : Receive(HeartbeatRxFrame(s))
    \/ \E m \in RxCommandFrames : Receive(m)
    \/ NextFrame

SpecHeartbeatRx == InitHeartbeatRx /\ [][NextHeartbeatRx]_vars

----------------------------------------------------------------------------
(* A bus shared by several modules and the client: the module receives the *)
(* client's requests and the replies its peers send to the client.         *)

BusModuleIds == {0, 1, 59}

BusGroupIds == {0, 1}

BusPayloads == {<<0>>, ZeroPayload, PackII(500000, 10000), PackII(1001, 3)}

BusRequests ==
    {ClientFrame(c, p, t) : c \in {4, 26, 27}, p \in BusPayloads, t \in {0, 1, BROADCAST}}

\* The frame _send_response of module peer puts on the bus in reply to a
\* request of the client
PeerReply(cmd, data, peer) ==
    [arbitration_id |-> _send_response(cmd, data, MONITOR_ADDR, peer).arbitration_id,
     data |-> data, is_error_frame |-> FALSE, by_client |-> FALSE,
     fields |-> [err_code |-> 0, device_no |-> DEVICE_SINGLE, cmd_no |-> cmd,
                 dest_addr |-> MONITOR_ADDR, src_addr |-> peer]]

InitBus ==
    /\ module_id \in BusModuleIds
    /\ group_id \in BusGroupIds
    /\ dev = DevInit
    /\ running = FALSE
    /\ rx = "not_started"
    /\ msg = NoMsg
    /\ pre = DevInit
    /\ dec = NoDec
    /\ outcome = "none"
    /\ reply_data = None
    /\ sent = <<>>
    /\ client_last = NoResp
    /\ hb = "not_started"
    /\ hb_msg = NoHeartbeat
    /\ sleep_time = 0
    /\ gui = GuiInit

NextBus ==
    \/ Start
    \/ \E m \in BusRequests : Receive(m)
    \/ \E peer \in BusModuleIds \ {module_id}, c \in {1, 4, 26, 27, 28},
          p \in BusPayloads \ {<<0>>} : Receive(PeerReply(c, p, peer))
    \/ NextFrame

SpecBus == InitBus /\ [][NextBus]_vars

----------------------------------------------------------------------------
(* The encoders on arguments of any size: the module id the simulator is   *)
(* constructed with and the command and target address send_command is     *)
(* called with are plain Python ints.                                      *)

EncodeModuleIds == {0, 59, 255, 256, 511}

EncodeCmds == {0, 26, 63, 64, 127}

EncodeTargets == {0, 63, 255, 256}

InitEncode ==
    /\ module_id \in EncodeModuleIds
    /\ group_id = 0
    /\ dev = DevInit
    /\ running = TRUE
    /\ rx = "codec"
    /\ msg = NoMsg
    /\ pre = DevInit
    /\ dec = NoDec
    /\ outcome = "none"
    /\ reply_data = None
    /\ sent = <<>>
    /\ client_last = NoResp
    /\ hb = "loop"
    /\ hb_msg = NoHeartbeat
    /\ sleep_time = 0
    /\ gui = GuiInit

\* CANClient.send_command(cmd, None, target_addr): the identifier is built
\* and the frame handed to bus.send
ClientSend(cmd, target_addr) ==
    /\ rx = "codec" /\ msg = NoMsg
    /\ msg' = ClientFrame(cmd, ZeroPayload, target_addr)
    /\ UNCHANGED <<gui, module_id, group_id, dev, running, rx, pre, dec, outcome, reply_data, sent,
                   client_last, hb, hb_msg, sleep_time>>

NextEncode ==
    \/ \E c \in EncodeCmds, t \in EncodeTargets : ClientSend(c, t)
    \/ ModuleDecode
    \/ ModuleReply
    \/ ClientDecode
    \/ HeartbeatStep
    \/ HeartbeatWake

SpecEncode == InitEncode /\ [][NextEncode]_vars

----------------------------------------------------------------------------
(* The graphical client: receive thread, UI queue, heartbeat watchdog.     *)

modvars == <<module_id, group_id, dev, running, rx, msg, pre, dec, outcome, reply_data, sent,
             client_last, hb, hb_msg, sleep_time>>

\* Inter-arrival times of heartbeats on the bus: the module's 390..410 ms,
\* and longer gaps (a late or lost heartbeat)
HeartbeatGaps == {39, 40, 41, 97, 103}

Older(age) == IF age < 0 \/ age >= AgeCap THEN age ELSE age + 1

\* process_response: cmd_no
gui_cmd_no(can_id) == BitAnd(Shr(can_id, 16), 63)

update_heartbeatNoCancel(g, recv_age) ==
    LET id == IF g.timeout_check_id = 1 THEN 2 ELSE 1
    IN  [g EXCEPT !.last_heartbeat_time = recv_age,
                  !.heartbeat_status = "normal",
                  !.timers = Append(g.timers, [id |-> id, due |-> TIMEOUT_AFTER]),
                  !.timeout_check_id = id]

\* update_heartbeat_status(current_time): the time stamp is stored, the
\* status set to normal, the timer timeout_check_id names cancelled, a new
\* one armed
update_heartbeat_status(g, recv_age) ==
    LET kept == IF g.timeout_check_id # 0
                THEN SelectSeq(g.timers, LAMBDA t : t.id # g.timeout_check_id)
                ELSE g.timers
        id == IF g.timeout_check_id = 1 THEN 2 ELSE 1
    IN  [g EXCEPT !.last_heartbeat_time = recv_age,
                  !.heartbeat_status = "normal",
                  !.timers = Append(kept, [id |-> id, due |-> TIMEOUT_AFTER]),
                  !.timeout_check_id = id]

\* process_response(msg, recv_time)
process_response(g, item) ==
    IF gui_cmd_no(item.arbitration_id) = 23
    THEN update_heartbeat_status(g, item.age)
    ELSE g

\* The while loop of process_ui_queue over the items q
RECURSIVE process_items(_, _)
process_items(g, q) ==
    IF q = <<>> THEN g ELSE process_items(process_response(g, Head(q)), Tail(q))

\* One iteration of receive_loop: the frame is queued with its time stamp
receive_loop(g, can_id) ==
    [g EXCEPT !.ui_queue = Append(@, [arbitration_id |-> can_id, age |-> 0]),
              !.recv_age = IF gui_cmd_no(can_id) = 23 THEN 0 ELSE @]

\* 10 ms pass; not while a timer or a frame is due
GuiTick ==
    /\ gui.ui_poll > 0
    /\ gui.next_heartbeat # 0
    /\ \A i \in 1 .. Len(gui.timers) : gui.timers[i].due > 0
    /\ gui' = [gui EXCEPT
                 !.ui_poll = @ - 1,
                 !.next_heartbeat = IF @ > 0 THEN @ - 1 ELSE @,
                 !.timers = [i \in 1 .. Len(gui.timers) |->
                                [gui.timers[i] EXCEPT !.due = @ - 1]],
                 !.ui_queue = [i \in 1 .. Len(gui.ui_queue) |->
                                  [gui.ui_queue[i] EXCEPT !.age = Older(@)]],
                 !.last_heartbeat_time = Older(@),
                 !.recv_age = Older(@)]
    /\ UNCHANGED modvars

\* A module's heartbeat is on the bus; receive_loop takes it if the client
\* is connected
GuiHeartbeatArrives ==
    /\ gui.next_heartbeat = 0
    /\ \E gap \in HeartbeatGaps \cup {0 - 1} :
          LET g1 == IF gui.running /\ gui.thread = "waiting"
                    THEN receive_loop(gui, HeartbeatId(0))
                    ELSE gui
          IN  gui' = [g1 EXCEPT !.next_heartbeat = gap,
                                !.regular = @ /\ gap \in 39 .. 41]
    /\ UNCHANGED modvars

\* A module's reply to a request is on the bus and receive_loop takes it
GuiReplyArrives ==
    /\ gui.running /\ gui.thread = "waiting"
    /\ Len(gui.ui_queue) < MaxQueue
    /\ gui' = receive_loop(gui, ResponseId(4, MONITOR_ADDR, 0))
    /\ UNCHANGED modvars

\* process_ui_queue: every queued item is handled, the poll is armed again
GuiPoll ==
    /\ gui.ui_poll = 0
    /\ gui' = [process_items([gui EXCEPT !.ui_queue = <<>>], gui.ui_queue)
                  EXCEPT !.ui_poll = ui_poll_ms]
    /\ UNCHANGED modvars

\* check_heartbeat_timeout, called by a timer that is due
GuiCheckTimeout ==
    /\ \E i \in 1 .. Len(gui.timers) :
          /\ gui.timers[i].due = 0
          /\ LET rest == SubSeq(gui.timers, 1, i - 1) \o SubSeq(gui.timers, i + 1, Len(gui.timers))
             IN  gui' = IF gui.running /\ gui.last_heartbeat_time > TIMEOUT_LIMIT
                        THEN [gui EXCEPT !.timers = rest, !.heartbeat_status = "timeout"]
                        ELSE [gui EXCEPT !.timers = rest]
    /\ UNCHANGED modvars

\* disconnect(), from the button: the flag is cleared, the timer
\* timeout_check_id names is cancelled, the bus shut down (which ends
\* receive_loop), the status reset; the UI queue is left as it is
GuiDisconnect ==
    /\ gui.running
    /\ gui' = [gui EXCEPT
                 !.running = FALSE,
                 !.timers = IF gui.timeout_check_id # 0
                            THEN SelectSeq(@, LAMBDA t : t.id # gui.timeout_check_id)
                            ELSE @,
                 !.timeout_check_id = 0,
                 !.thread = "exited",
                 !.heartbeat_status = "none",
                 !.regular = FALSE]
    /\ UNCHANGED modvars

\* setup_can(), from the button while disconnected
GuiConnect ==
    /\ ~gui.running
    /\ gui' = [gui EXCEPT !.running = TRUE, !.thread = "waiting"]
    /\ UNCHANGED modvars

InitGui ==
    /\ module_id = 0
    /\ group_id = 0
    /\ dev = DevInit
    /\ running = FALSE
    /\ rx = "not_started"
    /\ msg = NoMsg
    /\ pre = DevInit
    /\ dec = NoDec
    /\ outcome = "none"
    /\ reply_data = None
    /\ sent = <<>>
    /\ client_last = NoResp
    /\ hb = "not_started"
    /\ hb_msg = NoHeartbeat
    /\ sleep_time = 0
    /\ \E t \in 1 .. ui_poll_ms : gui = [GuiInit EXCEPT !.next_heartbeat = t]

NextGui ==
    \/ GuiTick
    \/ GuiHeartbeatArrives
    \/ GuiReplyArrives
    \/ GuiPoll
    \/ GuiCheckTimeout
    \/ GuiDisconnect
    \/ GuiConnect

SpecGui == InitGui /\ [][NextGui]_vars

----------------------------------------------------------------------------
(* Properties.  They are read in the states where the receive loop has     *)
(* finished an iteration: msg is the frame, pre and dev the Device State   *)
(* before and after, sent the frames transmitted for it.                   *)

\* The bits lo .. lo+w-1 of an identifier
Field(id, lo, w) == (id \div 2^lo) % 2^w

\* msg reached _process_message
Passed == outcome \in {"not_for_me", "routed", "raised"}

\* msg was handed to _route_command
Routed == outcome \in {"routed", "raised"}

\* msg was handed to _route_command as command c
ForMeCmd(c) == Routed /\ msg.fields.cmd_no = c

\* The big-endian uint32 pair of an 8-byte payload
PairOf(b) ==
    <<b[1] * 16777216 + b[2] * 65536 + b[3] * 256 + b[4],
      b[5] * 16777216 + b[6] * 65536 + b[7] * 256 + b[8]>>

\* C1: a frame that reaches _process_message is handed to the router iff its
\* destination is 0x3F, or its scope is 0x0A and its destination the module id,
\* or its scope is 0x0B and its destination the group id; any other frame is
\* dropped: nothing is sent and Device State is unchanged.
C1_ForMeRouting ==
    Passed =>
        /\ Routed <=> \/ msg.fields.dest_addr = 63
                      \/ msg.fields.device_no = 10 /\ msg.fields.dest_addr = module_id
                      \/ msg.fields.device_no = 11 /\ msg.fields.dest_addr = group_id
        /\ ~Routed => sent = <<>> /\ dev = pre /\ reply_data = None

C1_Witness ==
    /\ outcome = "not_for_me"
    /\ msg.fields.device_no = 11 /\ msg.fields.dest_addr = module_id
    /\ msg.fields.cmd_no = 28 /\ Len(msg.data) = 8

\* C2: a frame whose source field equals the module's own id is never
\* processed, whatever its scope, destination and command: Device State is
\* unchanged and nothing is sent.
C2_OwnSourceIgnored ==
    (outcome # "none" /\ msg.fields.src_addr = module_id) =>
        /\ ~Routed
        /\ dev = pre
        /\ sent = <<>>

C2_Witness ==
    /\ outcome = "own_echo"
    /\ msg.fields.dest_addr = 63 /\ msg.fields.cmd_no = 28 /\ Len(msg.data) = 8
    /\ PairOf(msg.data)[1] * 2 # pre.set_voltage

\* C3: every frame sent in reply has error code 0, scope 0x0A, the command of
\* the request, the request's source as destination and the module's id as
\* source, also for group and broadcast requests.
C3_ReplyIdentifier ==
    \A i \in 1 .. Len(sent) :
        /\ Field(sent[i].arbitration_id, 26, 3) = 0
        /\ Field(sent[i].arbitration_id, 22, 4) = 10
        /\ Field(sent[i].arbitration_id, 16, 6) = msg.fields.cmd_no
        /\ Field(sent[i].arbitration_id, 8, 8) = msg.fields.src_addr
        /\ Field(sent[i].arbitration_id, 0, 8) = module_id
        /\ sent[i].arbitration_id < 2^29

C3_Witness ==
    /\ rx = "handled" /\ Len(sent) = 1
    /\ msg.fields.device_no = 11 /\ msg.fields.dest_addr = 63
    /\ msg.fields.src_addr = 1

\* C4: decoding a packed identifier returns the five fields that were packed;
\* an identifier built by the client's send_command decodes in the module to
\* (0, 0x0A, cmd, target, 0xF0), and the reply identifier decodes in the client
\* to the request's command and the module's id.
C4_CodecRoundTrip ==
    /\ dec # NoDec => dec = msg.fields
    /\ (dec # NoDec /\ msg.by_client) =>
           /\ dec.err_code = 0 /\ dec.device_no = 10 /\ dec.src_addr = 240
           /\ msg.arbitration_id = 10 * 2^22 + dec.cmd_no * 2^16 + dec.dest_addr * 2^8 + 240
    /\ client_last # NoResp =>
           /\ client_last.cmd_no = msg.fields.cmd_no
           /\ client_last.src = module_id

C4_Witness ==
    /\ client_last # NoResp
    /\ msg.by_client /\ msg.fields.cmd_no = 63 /\ msg.fields.dest_addr = 255
    /\ module_id = 1

\* C5: after a routed command 0x1A whose payload byte 0 is 0x00 the module is
\* powered on, measured voltage equals setpoint voltage, measured current is
\* half the setpoint current, and the setpoint is unchanged.
C5_PowerOn ==
    (ForMeCmd(26) /\ Len(msg.data) >= 1 /\ msg.data[1] = 0) =>
        /\ outcome = "routed"
        /\ dev.is_power_on
        /\ dev.voltage_out = dev.set_voltage
        /\ 2 * dev.current_out = dev.set_current
        /\ dev.set_voltage = pre.set_voltage
        /\ dev.set_current = pre.set_current

C5_Witness ==
    /\ ForMeCmd(26) /\ Len(msg.data) >= 1 /\ msg.data[1] = 0
    /\ ~pre.is_power_on
    /\ pre.set_voltage = 2002 /\ pre.set_current = 6
    /\ dev.current_out = 3

\* C6: after a routed command 0x1A whose payload byte 0 is nonzero the module
\* is off with measured voltage and current 0 and the setpoint unchanged,
\* whatever the payload bytes after the first.
C6_PowerOff ==
    (ForMeCmd(26) /\ Len(msg.data) >= 1 /\ msg.data[1] # 0) =>
        /\ outcome = "routed"
        /\ dev = [pre EXCEPT !.is_power_on = FALSE, !.voltage_out = 0, !.current_out = 0]

C6_Witness ==
    /\ ForMeCmd(26) /\ Len(msg.data) = 8 /\ msg.data[1] # 0
    /\ pre.is_power_on /\ pre.voltage_out # 0 /\ pre.current_out # 0
    /\ dev.voltage_out = 0 /\ dev.current_out = 0 /\ ~dev.is_power_on

\* C7: a routed command 0x1A is answered iff its scope is 0x0A and its
\* destination is not 0x3F; the reply is 8 bytes, byte 0 being 0x00 when the
\* module is on after the command and 0x01 when it is off, the rest 0.
C7_PowerReply ==
    ForMeCmd(26) =>
        /\ sent # <<>> <=> (msg.fields.device_no = 10 /\ msg.fields.dest_addr # 63)
        /\ sent # <<>> =>
               sent[1].data = <<IF dev.is_power_on THEN 0 ELSE 1, 0, 0, 0, 0, 0, 0, 0>>

\* The reply rule of 0x1A for the payloads _handle_power_control accepts
\* (at least one byte)
PowerReplyNonEmptyPayload ==
    (ForMeCmd(26) /\ Len(msg.data) >= 1) =>
        /\ sent # <<>> <=> (msg.fields.device_no = 10 /\ msg.fields.dest_addr # 63)
        /\ sent # <<>> =>
               sent[1].data = <<IF dev.is_power_on THEN 0 ELSE 1, 0, 0, 0, 0, 0, 0, 0>>

\* C8: a routed command 0x1B with an 8-byte payload stores the setpoint sent;
\* measured voltage follows it if the module is on and stays 0 if it is off;
\* measured current and the power flag are unchanged.
C8_SetOutput ==
    (ForMeCmd(27) /\ Len(msg.data) = 8) =>
        /\ outcome = "routed"
        /\ dev.set_voltage = 2 * PairOf(msg.data)[1]
        /\ dev.set_current = 2 * PairOf(msg.data)[2]
        /\ pre.is_power_on => dev.voltage_out = dev.set_voltage
        /\ ~pre.is_power_on => dev.voltage_out = 0
        /\ dev.current_out = pre.current_out
        /\ dev.is_power_on = pre.is_power_on

C8_Witness ==
    /\ ForMeCmd(27) /\ Len(msg.data) = 8
    /\ pre.is_power_on /\ 2 * pre.current_out = pre.set_current
    /\ dev.set_current # pre.set_current /\ dev.voltage_out # pre.voltage_out
    /\ 2 * dev.current_out = pre.set_current

\* C9: every routed command 0x1B with an 8-byte payload is answered, whatever
\* the scope and destination, and the reply payload decodes to the (mV, mA) pair
\* that was sent.
C9_SetOutputReply ==
    (ForMeCmd(27) /\ Len(msg.data) = 8) =>
        /\ Len(sent) = 1
        /\ Len(sent[1].data) = 8
        /\ PairOf(sent[1].data) = PairOf(msg.data)

\* C10: a routed command 0x1C changes Device State as command 0x1B with the
\* same payload does, and is answered, with the stored setpoint, iff its
\* destination is not 0x3F (group requests included).
C10_SetOutputFixed ==
    ForMeCmd(28) =>
        /\ dev = IF route_raises(27, msg.data, pre) THEN pre ELSE route_dev(27, msg.data, pre)
        /\ sent # <<>> <=> msg.fields.dest_addr # 63
        /\ sent # <<>> => sent[1].data = _handle_read_output_setting(dev).bytes

\* The reply rule of 0x1C for the payloads _handle_set_output accepts (8 bytes)
FixedReplyEightBytePayload ==
    (ForMeCmd(28) /\ Len(msg.data) = 8) =>
        /\ dev = route_dev(27, msg.data, pre)
        /\ sent # <<>> <=> msg.fields.dest_addr # 63

\* C11: a routed command that is none of 0x01, 0x03, 0x04, 0x08, 0x09, 0x0A,
\* 0x0C, 0x1A, 0x1B, 0x1C gets no reply and leaves Device State unchanged,
\* whatever its payload, and the router returns normally.
C11_UnknownCommand ==
    (Routed /\ msg.fields.cmd_no \notin {1, 3, 4, 8, 9, 10, 12, 26, 27, 28}) =>
        /\ outcome = "routed"
        /\ sent = <<>>
        /\ reply_data = None
        /\ dev = pre

C11_Witness ==
    /\ Routed /\ msg.fields.cmd_no = 29 /\ msg.data = <<>>
    /\ pre.is_power_on /\ pre.voltage_out # 0

\* C12: Device State changes only while a routed 0x1A, 0x1B or 0x1C is
\* handled; every routed read command (0x01, 0x03, 0x04, 0x08, 0x09, 0x0A,
\* 0x0C) leaves Device State unchanged and is answered with one frame,
\* whatever the scope and destination of the request.
C12_ReadCommands ==
    /\ dev # pre => (Routed /\ msg.fields.cmd_no \in {26, 27, 28})
    /\ (Routed /\ msg.fields.cmd_no \in {1, 3, 4, 8, 9, 10, 12}) =>
           /\ dev = pre
           /\ Len(sent) = 1

\* What holds of the read commands: none changes Device State, and each is
\* answered with one 8-byte frame unless its handler raised
ReadCommandsKeepState ==
    /\ dev # pre => (Routed /\ msg.fields.cmd_no \in {26, 27, 28})
    /\ (Routed /\ msg.fields.cmd_no \in {1, 3, 4, 8, 9, 10, 12}) =>
           /\ dev = pre
           /\ outcome = "routed" => Len(sent) = 1 /\ Len(sent[1].data) = 8
           /\ outcome = "raised" => msg.fields.cmd_no = 12 /\ MulInt(pre.voltage_out, 10) > 65535

\* Module id and group id are never assigned after construction
IdentityNeverChanges == [][module_id' = module_id /\ group_id' = group_id]_vars

\* C13: frames are handled one at a time.  A frame is taken only when the
\* receive loop is waiting, and the step that takes it leaves its handling
\* finished; Device State changes and replies are sent only in that step; a
\* frame causes at most one reply, sent exactly when the dispatch yields a
\* payload, and carrying that payload.
C13_OneFrameAtATime ==
    /\ [](/\ Len(sent) <= 1
          /\ Len(sent) = 1 <=> (outcome = "routed" /\ ~reply_data.is_none)
          /\ Len(sent) = 1 => sent[1].data = reply_data.bytes)
    /\ [][/\ msg' # msg /\ msg' # NoMsg =>
                 rx = "waiting" /\ rx' \in {"handled", "dead", "exited"}
          /\ (dev' # dev \/ (sent' # sent /\ sent' # <<>>)) =>
                 rx = "waiting" /\ msg' # NoMsg]_vars

C13_Witness ==
    /\ rx = "handled" /\ outcome = "routed"
    /\ Len(sent) = 1 /\ dev # pre
    /\ msg.fields.cmd_no = 27

\* C14: a send that fails is not fatal.  After a failed heartbeat send the
\* heartbeat loop is still running, and after a failed reply send the receive
\* loop goes on to the next frame.
C14_SendFailureNotFatal ==
    /\ hb # "dead"
    /\ outcome = "send_failed" => rx = "handled"

\* msg was handed to _route_command with a payload too short for its command
Undersized ==
    /\ Routed
    /\ \/ msg.fields.cmd_no = 26 /\ Len(msg.data) = 0
       \/ msg.fields.cmd_no \in {27, 28} /\ Len(msg.data) < 8

\* C15: a routed 0x1A with an empty payload, or 0x1B/0x1C with fewer than 8
\* bytes, leaves Device State unchanged, is answered with at most one frame,
\* and the receive loop goes on to the next frame.
C15_UndersizedPayload ==
    Undersized =>
        /\ dev = pre
        /\ Len(sent) <= 1
        /\ rx = "handled"

\* What holds of an undersized payload: Device State is unchanged and nothing
\* is sent, because the handler raised
UndersizedPayloadKeepsState ==
    Undersized =>
        /\ dev = pre
        /\ sent = <<>>
        /\ outcome = "raised" /\ rx = "dead"

\* C16: every sleep of the heartbeat loop, between one heartbeat and the
\* next, lasts between 390 ms and 410 ms.
C16_HeartbeatPeriod ==
    /\ hb = "sleeping" => (sleep_time >= 390000 /\ sleep_time <= 410000)
    /\ hb = "sleeping" => hb_msg # NoHeartbeat
    /\ hb_msg # NoHeartbeat => (sleep_time >= 390000 /\ sleep_time <= 410000)

C16_Witness ==
    /\ hb = "sleeping" /\ sleep_time = 410000 /\ rx = "handled"

\* C17: every heartbeat frame has the identifier 0x0757F800 with the module
\* id in its low byte and a payload of 8 zero bytes, and no step of the
\* heartbeat loop changes Device State, wherever the receive loop stands.
C17_Heartbeat ==
    /\ [](hb_msg # NoHeartbeat =>
             /\ hb_msg.arbitration_id = 123205632 + module_id
             /\ Field(hb_msg.arbitration_id, 0, 8) = module_id
             /\ Field(hb_msg.arbitration_id, 8, 21) = 481272
             /\ hb_msg.data = <<0, 0, 0, 0, 0, 0, 0, 0>>)
    /\ [][(hb # "not_started" /\ (hb' # hb \/ hb_msg' # hb_msg \/ sleep_time' # sleep_time)) =>
              (dev' = dev /\ pre' = pre /\ sent' = sent /\ rx' = rx)]_vars

C17_Witness ==
    /\ hb = "sleeping" /\ hb_msg # NoHeartbeat
    /\ module_id = 1
    /\ rx = "handled" /\ dev.is_power_on /\ dev # pre

\* C18: while the run flag is set the heartbeat loop keeps alternating
\* between sending and sleeping, wherever the receive loop stands (waiting for
\* a frame that never comes, done with one, or ended); and the receive loop
\* takes a frame whenever it is waiting, wherever the heartbeat loop stands,
\* and gets back to waiting after each frame it handled.
C18_LoopsIndependent ==
    /\ (running /\ hb = "loop") ~> (hb = "sleeping")
    /\ (hb = "sleeping") ~> (hb = "loop")
    /\ [](running => <>(hb = "sleeping"))
    /\ [](rx = "waiting" => ENABLED (\E m \in LoopFrames : Receive(m)))
    /\ (rx = "handled") ~> (rx = "waiting")

C18_Witness ==
    /\ running
    /\ hb = "sleeping" /\ hb_msg # NoHeartbeat
    /\ rx = "handled" /\ outcome = "routed" /\ Len(sent) = 1
    /\ msg.fields.cmd_no = 4

C20_FieldsWithinWidth ==
    /\ msg # NoMsg =>
           /\ msg.fields.cmd_no \in 0 .. 63
           /\ msg.fields.dest_addr \in 0 .. 255
           /\ msg.fields.src_addr \in 0 .. 255
    /\ hb_msg # NoHeartbeat => module_id \in 0 .. 255
    /\ sent # <<>> =>
           /\ module_id \in 0 .. 255
           /\ dec.cmd_no \in 0 .. 63
           /\ dec.src_addr \in 0 .. 255

\* What holds of a module reply: its command and its target address come out
\* of the decoder and fit their fields; its source is the module id as given
ReplyFieldsFromDecoder ==
    sent # <<>> =>
        /\ dec.cmd_no \in 0 .. 63
        /\ dec.src_addr \in 0 .. 255
        /\ sent[1].arbitration_id =
               BitOr(10 * 2^22 + dec.cmd_no * 2^16 + dec.src_addr * 2^8, module_id)

\* C21: every routed command 0x0C is answered with four big-endian uint16
\* values: measured voltage x10, max current x10 (256) if the module is on and
\* 0 if it is off, then 0 and 0; measured voltage x10 always fits 16 bits.
C21_ReadModuleExternal ==
    ForMeCmd(12) =>
        /\ pre.voltage_out \div 200 <= 65535
        /\ outcome = "routed"
        /\ Len(sent) = 1
        /\ sent[1].data =
               <<(pre.voltage_out \div 200) \div 256, (pre.voltage_out \div 200) % 256,
                 IF pre.is_power_on THEN 1 ELSE 0, 0, 0, 0, 0, 0>>

\* The reply of 0x0C while measured voltage x10 fits 16 bits
ReadModuleExternalInRange ==
    (ForMeCmd(12) /\ pre.voltage_out \div 200 <= 65535) =>
        /\ outcome = "routed"
        /\ Len(sent) = 1
        /\ sent[1].data =
               <<(pre.voltage_out \div 200) \div 256, (pre.voltage_out \div 200) % 256,
                 IF pre.is_power_on THEN 1 ELSE 0, 0, 0, 0, 0, 0>>

\* C22: in every reachable Device State the reply payload of 0x01 is the one
\* of 0x03 (measured voltage and current as float32) and the reply payload of
\* 0x08 is the one of 0x09 (measured millivolts and milliamps as uint32);
\* while the module is off, so before any power-on, all four are all zero.
C22_SystemEqualsModule ==
    /\ route_reply(1, 10, module_id, dev) = route_reply(3, 10, module_id, dev)
    /\ route_reply(8, 10, module_id, dev) = route_reply(9, 10, module_id, dev)
    /\ (ForMeCmd(1) \/ ForMeCmd(3)) =>
           /\ Len(sent) = 1
           /\ sent[1].data = PackF32(pre.voltage_out) \o PackF32(pre.current_out)
    /\ (ForMeCmd(8) \/ ForMeCmd(9)) =>
           /\ Len(sent) = 1
           /\ sent[1].data = PackII(MulInt(pre.voltage_out, 1000), MulInt(pre.current_out, 1000))
    /\ ((ForMeCmd(1) \/ ForMeCmd(3) \/ ForMeCmd(8) \/ ForMeCmd(9)) /\ ~pre.is_power_on) =>
           sent[1].data = <<0, 0, 0, 0, 0, 0, 0, 0>>

C22_Witness ==
    /\ ForMeCmd(1) /\ Len(sent) = 1
    /\ pre.is_power_on /\ pre.voltage_out = 2002 /\ pre.current_out = 10000
    /\ sent[1].data # <<0, 0, 0, 0, 0, 0, 0, 0>>

\* The UI thread handles a queued heartbeat in this step
HandlesHeartbeat ==
    /\ gui.ui_poll = 0 /\ gui'.ui_poll = ui_poll_ms
    /\ \E i \in 1 .. Len(gui.ui_queue) : gui_cmd_no(gui.ui_queue[i].arbitration_id) = 23

TimeoutOnlyAfterSilenceOnTheBus ==
    [][(gui.heartbeat_status # "timeout" /\ gui'.heartbeat_status = "timeout") =>
          gui.recv_age > TIMEOUT_LIMIT]_vars

\* C24: in every reachable Device State measured voltage equals the setpoint
\* voltage when the module is on and 0 when it is off, and measured current is
\* 0 whenever the module is off.
C24_MeasuredFollowsSetpoint ==
    /\ dev.is_power_on => dev.voltage_out = dev.set_voltage
    /\ ~dev.is_power_on => (dev.voltage_out = 0 /\ dev.current_out = 0)
    /\ pre.is_power_on => pre.voltage_out = pre.set_voltage
    /\ ~pre.is_power_on => (pre.voltage_out = 0 /\ pre.current_out = 0)

C24_Witness ==
    /\ ForMeCmd(28) /\ outcome = "routed"
    /\ pre.is_power_on /\ dev.is_power_on
    /\ dev.set_voltage # pre.set_voltage
    /\ dev.voltage_out = 2002
    /\ 2 * dev.current_out # dev.set_current

\* C25: a heartbeat frame is never for-me, whatever the identity of the
\* receiver and of the sender: its scope field is neither 0x0A nor 0x0B, its
\* destination field is not 0x3F, it never reaches the router, never changes
\* Device State and never causes a reply.
C25_HeartbeatNotForMe ==
    (outcome # "none" /\ msg.arbitration_id \div 256 = 481272) =>
        /\ Field(msg.arbitration_id, 22, 4) \notin {10, 11}
        /\ Field(msg.arbitration_id, 8, 8) # 63
        /\ outcome \in {"own_echo", "not_for_me"}
        /\ dec # NoDec => ~IsForMe(dec.device_no, dec.dest_addr, module_id, group_id)
        /\ dev = pre
        /\ sent = <<>>

C25_Witness ==
    /\ outcome = "not_for_me" /\ msg.arbitration_id = 123205632 + 63
    /\ module_id = 248 /\ group_id = 13
    /\ dev.is_power_on

\* C26: a reply that another module sent to the client (destination 0xF0,
\* source the other module's id) is never handed to the router: it changes
\* nothing and causes no frame; and a request of the client causes at most one
\* reply of the module.
C26_NoReplyChain ==
    /\ (outcome # "none" /\ ~msg.by_client /\ ~msg.is_error_frame) =>
           /\ Field(msg.arbitration_id, 0, 8) # module_id
           /\ outcome = "not_for_me"
           /\ dev = pre
           /\ sent = <<>>
    /\ (outcome # "none" /\ msg.by_client) => Len(sent) <= 1

C26_Witness ==
    /\ outcome = "not_for_me" /\ ~msg.by_client
    /\ module_id = 0 /\ msg.fields.src_addr = 59
    /\ msg.fields.cmd_no = 27 /\ msg.data = PackII(1001, 3)
    /\ dev.is_power_on /\ dev.set_voltage = 1000000

\* C27: every reply payload the router produces has exactly 8 bytes, for
\* every command and every reachable Device State, all-zero payloads included;
\* so the truthiness test lets every produced payload through.
C27_ReplyEightBytes ==
    /\ ~reply_data.is_none =>
           /\ Len(reply_data.bytes) = 8
           /\ Len(sent) = 1 /\ sent[1].data = reply_data.bytes
    /\ \A c \in 0 .. 63 :
           (~route_raises(c, <<0, 0, 0, 0, 0, 0, 0, 0>>, dev)
            /\ ~route_reply(c, 10, module_id, dev).is_none) =>
               Len(route_reply(c, 10, module_id, dev).bytes) = 8

C27_Witness ==
    /\ ForMeCmd(8) /\ ~pre.is_power_on
    /\ ~reply_data.is_none
    /\ Len(sent) = 1 /\ sent[1].data = <<0, 0, 0, 0, 0, 0, 0, 0>>

\* C28: while the client is disconnected the heartbeat status is never
\* 'normal' and no timeout check is armed, whatever was queued before the
\* disconnect.
C28_DisconnectedNeverNormal ==
    ~gui.running =>
        /\ gui.heartbeat_status # "normal"
        /\ gui.timers = <<>>

\* What holds: a status 'normal' while disconnected comes from a heartbeat
\* that was in the UI queue at the disconnect
NormalWhileDisconnectedFromQueue ==
    [][(~gui'.running /\ gui'.heartbeat_status = "normal") =>
          (~gui.running /\ (gui.heartbeat_status = "normal" \/ HandlesHeartbeat))]_vars

====
